---- MODULE Spec2Model ----
(***************************************************************************)
(* A model of the change-propagation core of derivablejs (ratom.js): the   *)
(* four-colour node state machine, the lazy pull evaluator with parent     *)
(* capture (src/src/parents.js), the mark / notify / sweep propagator      *)
(* (README "Algorithms and Data Structures"), reactor start and stop,      *)
(* transactions, lenses, tickers, and reactions that adopt reactions.      *)
(*                                                                         *)
(* Every library call is one action.  A call is computed by operators that *)
(* thread a record g (the whole mutable state of the library) through the  *)
(* steps the call performs, in the order it performs them.                 *)
(*                                                                         *)
(* The program under test is a fixed application written against the       *)
(* library:                                                                *)
(*     a1 = atom(0)                  a2 = atom(0).withEquality(sameParity) *)
(*     l1 = a1.lens({get: p => p % 2, set: (p, c) => p - p % 2 + c})       *)
(*     l2 = l1.lens({get: x => 1 - x, set: (_, c) => 1 - c})               *)
(*     d  = derivation(() => { try { a2.set(1) } catch (e) {}              *)
(*                             return l1.get() === 0                       *)
(*                                      ? Math.floor(a1.get() / 2)         *)
(*                                      : a2.get() })                      *)
(*     r1 = d.reactor(v => log(r1, v))                                     *)
(*     r2 = l2.reactor(v => { log(r2, v);                                  *)
(*                            try { a2.set(0) } catch (e) {} })            *)
(*     r3 = a2.reactor(v => log(r3, v))                                    *)
(*     r4 = a1.reactor(v => { log(r4, v); r1.stop() })                     *)
(*     r5 = a1.reactor(v => { log(r5, v); throw new Error() })             *)
(*     e  = derivation(() => { if (l1.get() === 1) throw new Error();      *)
(*                             return 0 })                                 *)
(*     c1 = derivation(() => c2.get())                                     *)
(*     c2 = derivation(() => { const v = a1.get();                         *)
(*                             return v === 1 ? c2.get()                   *)
(*                                  : v === 2 ? c1.get() : v })            *)
(***************************************************************************)
EXTENDS Integers, Sequences, FiniteSets, TLC

\* Values written by Atom.set are drawn from 0..MaxVal.
MaxVal == 2
\* transact calls nest at most MaxDepth deep.
MaxDepth == 2
\* The application creates at most MaxTickers tickers.
MaxTickers == 2

Atoms == {"a1", "a2"}
Lenses == {"l1", "l2"}
Derivs == {"l1", "l2", "d"}
Reactors == {"r1", "r2", "r3", "r4", "r5"}
\* The reactions whose reacting function stops no reaction.
Loggers == {"r1", "r2", "r3"}
Derivables == Atoms \cup Derivs
\* The derivations whose deriving function reads, for some values of a1, the
\* derivation itself: c2 directly, and through c1.
Cyclics == {"c1", "c2"}
\* The derivation whose deriving function throws, for some values of a1.
Faulty == {"e"}
Nodes == Derivables \cup Cyclics \cup Faulty
Colors == {"White", "Red", "Black", "Green"}
Val == 0..MaxVal
Bit == 0..1
TickerIds == 1..MaxTickers
\* The cached state of a derivation that was never evaluated (undefined).
NoVal == -1
\* What a deriving function yields when it throws instead of returning.
Failure == -2
\* The owner of an independent reactor.
NoOwner == "none"
\* The reactors, in the order the application created them.
ReactorSeq == <<"r1", "r2", "r3", "r4", "r5">>

\* The derivable a reactor was created on (x.reactor(f)).
Parent(r) ==
  CASE r = "r1" -> "d" [] r = "r2" -> "l2" [] r = "r3" -> "a2" [] OTHER -> "a1"
\* The atom or lens a lens was created on (x.lens(descriptor)).
LensParent(l) == IF l = "l1" THEN "a1" ELSE "l1"

VARIABLES
  color,        \* colour of every node
  val,          \* current state of every atom, cached state of every derivation
  parents,      \* per derivation: the parents captured at its last evaluation
  children,     \* per derivable: its direct children, in insertion order
  active,       \* per reactor: its activity status
  parentsStack, \* parents.js: the stack of capture frames
  reacting,     \* number of reacting functions on the call stack
  txnDepth,     \* nesting depth of transact
  txnAtoms,     \* atoms written in the open transaction, in first-write order
  txnOld,       \* per atom: value and colour before the open transaction
  tickers,      \* per ticker: not created yet ("new"), "alive", or released ("done")
  pending,      \* atoms written while a ticker was alive, since the last tick
  owner,        \* per reactor: the reactor it depends on, or NoOwner
  txnPre        \* history: the atoms when the outermost transact was entered

vars == <<color, val, parents, children, active, parentsStack, reacting,
          txnDepth, txnAtoms, txnOld, tickers, pending, owner, txnPre>>

----
\* Sequence helpers.
SeqRemove(s, x) == SelectSeq(s, LAMBDA y : y # x)
SeqHas(s, x) == \E i \in 1..Len(s) : s[i] = x
SeqAdd(s, x) == IF SeqHas(s, x) THEN s ELSE Append(s, x)

----
\* The equality function of a node: strict equality, except for a2, which was
\* given a custom one by withEquality.
Equals(n, a, b) == IF n = "a2" THEN a % 2 = b % 2 ELSE a = b

\* The lens descriptors.
LensGet(l, p) == IF l = "l1" THEN p % 2 ELSE 1 - p
LensSetFn(l, p, c) == IF l = "l1" THEN (p - (p % 2)) + c ELSE 1 - c

\* One step of a deriving function that has read the values `seen` so far: the
\* next node it dereferences, or the value it returns.
DerivStep(n, seen) ==
  IF n \in Lenses
  THEN IF Len(seen) = 0
       THEN [done |-> FALSE, node |-> LensParent(n), value |-> NoVal]
       ELSE [done |-> TRUE, node |-> n, value |-> LensGet(n, seen[1])]
  ELSE IF n \in Faulty
  THEN IF Len(seen) = 0
       THEN [done |-> FALSE, node |-> "l1", value |-> NoVal]
       ELSE [done |-> TRUE, node |-> n, value |-> IF seen[1] = 1 THEN Failure ELSE 0]
  ELSE IF n \in Cyclics
  THEN CASE Len(seen) = 0 ->
              [done |-> FALSE, node |-> IF n = "c1" THEN "c2" ELSE "a1", value |-> NoVal]
         [] Len(seen) = 1 /\ n = "c2" /\ seen[1] \in {1, 2} ->
              [done |-> FALSE, node |-> IF seen[1] = 1 THEN "c2" ELSE "c1",
               value |-> NoVal]
         [] OTHER -> [done |-> TRUE, node |-> n, value |-> seen[Len(seen)]]
  ELSE CASE Len(seen) = 0 -> [done |-> FALSE, node |-> "l1", value |-> NoVal]
         [] Len(seen) = 1 ->
              [done |-> FALSE, node |-> IF seen[1] = 0 THEN "a1" ELSE "a2",
               value |-> NoVal]
         [] OTHER ->
              [done |-> TRUE, node |-> n,
               value |-> IF seen[1] = 0 THEN seen[2] \div 2 ELSE seen[2]]

\* The atom writes a user function attempts (inside try/catch): <<atom, value>>.
WritesOf(n) == CASE n = "d" -> <<"a2", 1>>
                 [] n = "r2" -> <<"a2", 0>>
                 [] OTHER -> <<>>

\* The reactions a reacting function stops.
StopsOf(r) == IF r = "r4" THEN <<"r1">> ELSE <<>>

\* Whether the reacting function of r throws.
Throws(r) == r = "r5"

----
(***************************************************************************)
(* The state threaded through one call: the library's mutable state, the   *)
(* reaction queue of the propagation in progress, whether the call threw   *)
(* (err), the value the latest get() returned (ret), the frame the latest  *)
(* capture returned (frame), and a trace of what the call did so far:      *)
(*   fired     <<reactor, value>> per invocation of a reacting function    *)
(*   evald     the derivations whose deriving function ran, in order       *)
(*   attempts  the atom writes attempted from inside user functions        *)
(*   writes    the number of Atom.set calls that were not rejected         *)
(*   hooks     <<hook, reactor>> per invocation of onStart or onStop       *)
(*   trans     <<node, from, to>> per color change of a node, in order     *)
(*   found     the reactions the mark phase encountered, in order          *)
(*   errs      the reactions whose reacting function threw, in order       *)
(*   ran       the derivations whose deriving function was invoked         *)
(*   caps      <<depth of the capture stack, node>> per captureParent call *)
(* and the derivations whose deriving function is on the call stack        *)
(* (evaluating), innermost last.                                           *)
(***************************************************************************)
Cur ==
  [color |-> color, val |-> val, parents |-> parents, children |-> children,
   active |-> active, parentsStack |-> parentsStack, reacting |-> reacting,
   txnDepth |-> txnDepth, txnAtoms |-> txnAtoms, txnOld |-> txnOld,
   tickers |-> tickers, pending |-> pending, owner |-> owner,
   queue |-> <<>>, err |-> FALSE, ret |-> NoVal, frame |-> <<>>,
   fired |-> <<>>, evald |-> <<>>, attempts |-> <<>>, writes |-> 0,
   hooks |-> <<>>, trans |-> <<>>, found |-> <<>>, errs |-> <<>>, ran |-> <<>>,
   caps |-> <<>>,
   evaluating |-> <<>>]

\* The graph: what colours, cached states and links a call may or may not touch.
Core(g) ==
  [color |-> g.color, val |-> g.val, parents |-> g.parents,
   children |-> g.children, active |-> g.active]

NoOld == [val |-> NoVal, color |-> "White"]

----
\* src/src/parents.js

\* A variant of captureParent that pushes onto the bottom frame.
captureBottom(g, p) ==
  IF Len(g.parentsStack) > 0
  THEN [g EXCEPT !.parentsStack[1] = Append(Append(@, p), 0),
                 !.caps = Append(@, <<Len(g.parentsStack), p>>)]
  ELSE g

\* captureParent(p): push p and an epoch slot onto the top frame, if any.
captureParent(g, p) ==
  IF Len(g.parentsStack) > 0
  THEN [g EXCEPT !.parentsStack[Len(g.parentsStack)] = Append(Append(@, p), 0),
                 !.caps = Append(@, <<Len(g.parentsStack), p>>)]
  ELSE g

\* What captureParent(p) returns: the index of the epoch slot, or -1.
captureParentIdx(g, p) ==
  IF Len(g.parentsStack) > 0
  THEN Len(g.parentsStack[Len(g.parentsStack)]) + 1
  ELSE -1

\* The nodes of a captured frame [p1, e1, p2, e2, ...], in read order.
FrameNodes(frame) == [k \in 1..(Len(frame) \div 2) |-> frame[2 * k - 1]]

----
\* A variant of OnStack that sees deriving functions only.
Deriving(g) == Len(g.parentsStack) > 0

\* Whether a deriving or a reacting function is executing on the call stack.
OnStack(g) == Len(g.parentsStack) > 0 \/ g.reacting > 0

\* A variant of InTransaction that never sees an open transaction.
NoTransaction(g) == FALSE

\* Whether a transaction is open.
InTransaction(g) == g.txnDepth > 0

\* A variant of Ticking that never sees a live ticker.
NeverTicking(g) == FALSE

\* Whether at least one ticker is alive.
Ticking(g) == \E t \in TickerIds : g.tickers[t] = "alive"

\* Node n takes color c.
Paint(g, n, c) ==
  IF g.color[n] = c
  THEN g
  ELSE [g EXCEPT !.color[n] = c, !.trans = Append(@, <<n, g.color[n], c>>)]

\* Remember an atom's value and colour the first time the transaction writes it.
Track(g, a) ==
  IF SeqHas(g.txnAtoms, a)
  THEN g
  ELSE [g EXCEPT !.txnAtoms = Append(@, a),
                 !.txnOld[a] = [val |-> g.val[a], color |-> g.color[a]]]

\* Discard the links from the old parents of d to d.
Unlink(g, d) ==
  [g EXCEPT !.children =
     [n \in DOMAIN @ |-> IF SeqHas(g.parents[d], n) THEN SeqRemove(@[n], d) ELSE @[n]]]

\* A variant of Link that leaves the child sets of the parents alone.
LinkParents(g, d, ps) == [g EXCEPT !.parents[d] = ps]

\* The captured parents become d's parents; d enters their child sets.
Link(g, d, ps) ==
  [g EXCEPT !.parents[d] = ps,
            !.children =
              [n \in DOMAIN @ |-> IF SeqHas(ps, n) THEN SeqAdd(@[n], d) ELSE @[n]]]

\* Sweep of a black node: leave the parents' child sets, turn green.
Detach(g, c) ==
  [Paint(g, c, "Green") EXCEPT
     !.children =
       [n \in DOMAIN @ |-> IF SeqHas(g.parents[c], n) THEN SeqRemove(@[n], c) ELSE @[n]]]

\* A variant of Reconcile that detaches the red node as if it were black.
Prune(g, c) == Detach(g, c)

\* Sweep of a red node: it becomes white.
Reconcile(g, c) == Paint(g, c, "White")

\* A variant of Unchanged that ignores the equality function of the atom.
SameState(g, a, v) == v = g.val[a]

\* Atom.set: the new value is equal to the current state, under the equality
\* function of the atom.
Unchanged(g, a, v) == Equals(a, v, g.val[a])

\* The lifecycle method h (onStart or onStop) of reactor r is called.
Hook(g, h, r) == [g EXCEPT !.hooks = Append(@, <<h, r>>)]

\* A variant of Stop that leaves the reaction running.
StayActive(g, r) == g

\* Reactor.orphan(): a dependent reactor becomes independent.
Orphan(g, r) == [g EXCEPT !.owner[r] = NoOwner]

\* The reactors that depend on reactor r.
Dependents(g, r) == SelectSeq(ReactorSeq, LAMBDA x : g.owner[x] = r)

RECURSIVE Stop(_, _), StopAll(_, _)
\* stop() on each of the reactors rs.
StopAll(g, rs) ==
  IF Len(rs) = 0 THEN g ELSE StopAll(Stop(g, Head(rs)), Tail(rs))

\* Reactor.stop(): the reactor leaves its parent's child set and its owner,
\* and the reactors that depend on it are stopped.
Stop(g, r) ==
  IF ~g.active[r]
  THEN g
  ELSE Hook(StopAll(Orphan([g EXCEPT !.active[r] = FALSE,
                                     !.children[Parent(r)] = SeqRemove(@, r)], r),
                    Dependents(g, r)), "onStop", r)

\* A variant of Adopt that makes the child dependent whatever is active.
AdoptAlways(g, o, c) == [g EXCEPT !.owner[c] = o]

\* owner.adopt(child).
Adopt(g, o, c) ==
  IF ~g.active[c]
  THEN g
  ELSE IF g.active[o]
       THEN [g EXCEPT !.owner[c] = o]
       ELSE Stop(g, c)

\* The stop() calls the reacting function of r makes.
Stops(g, r) == IF Len(StopsOf(r)) = 0 THEN g ELSE Stop(g, StopsOf(r)[1])

\* A variant of IsActive for which every queued reaction is active.
Queued(g, r) == TRUE

\* Reactor.isActive().
IsActive(g, r) == g.active[r]

\* A variant of Enqueue that puts the reaction at the head of the queue.
Jump(g, r) == [g EXCEPT !.queue = <<r>> \o @]

\* The mark phase places a reaction it encounters in the reaction queue.
Enqueue(g, r) == [g EXCEPT !.queue = Append(@, r)]

\* Which children the mark phase blackens and descends into.
Markable(g, c) == g.color[c] \in {"White", "Red"}

\* A variant of ShouldReact that re-runs every notified reaction.
ReactAlways(g, r) == TRUE

\* A notified reaction re-runs iff its parent is red.
ShouldReact(g, r) == g.color[Parent(r)] = "Red"

RECURSIVE DoGet(_, _), Resolve(_, _), Evaluate(_, _), RunFn(_, _, _),
          Interrogate(_, _, _), Attempt(_, _), AtomSet(_, _, _),
          MarkKids(_, _), Notify(_), SweepKids(_, _), MarkAll(_, _),
          SweepAll(_, _), Propagate(_, _), React(_, _, _), LensSet(_, _, _)

\* x.get(): capture x as a parent of whoever is evaluating, then answer by
\* colour.  The value returned is left in ret.
DoGet(g, n) ==
  IF n \in Atoms
  THEN [captureParent(g, n) EXCEPT !.ret = g.val[n]]
  ELSE Resolve(captureParent(g, n), n)

\* The deriving function of d after its latest dereference returned, or threw.
RunRest(g, d, seen) == IF g.err THEN g ELSE RunFn(g, d, Append(seen, g.ret))

\* The body of a deriving function: dereference, in order, what it reads.
RunFn(g, d, seen) ==
  LET step == DerivStep(d, seen)
  IN IF step.done
     THEN IF step.value = Failure
          THEN [g EXCEPT !.err = TRUE]
          ELSE [g EXCEPT !.ret = step.value]
     ELSE RunRest(DoGet(g, step.node), d, seen)

\* catch (e) {} around the write that the user function of n attempted in g
\* and that ended in g2.
Caught(g, g2, n) ==
  [g2 EXCEPT !.err = FALSE,
             !.attempts = Append(@, [by |-> n, rejected |-> g2.err,
                                     unchanged |-> Core(g2) = Core(g)])]

\* An atom write attempted by the user function of n, inside try/catch.
Attempt(g, n) ==
  IF Len(WritesOf(n)) = 0
  THEN g
  ELSE Caught(g, AtomSet(g, WritesOf(n)[1], WritesOf(n)[2]), n)

\* A variant of PopFrame without the finally clause.
KeepFrame(g, i) == [g EXCEPT !.frame = g.parentsStack[i + 1]]

\* A variant of PopFrame that pops the frame only when f returned.
PopOnReturn(g, i) ==
  IF g.err
  THEN g
  ELSE [g EXCEPT !.frame = g.parentsStack[i + 1],
                 !.parentsStack = SubSeq(@, 1, Len(@) - 1),
                 !.evaluating = SubSeq(@, 1, Len(@) - 1)]

\* capturingParentsEpochs, after f(): return parentsStack[i]; finally pop.
PopFrame(g, i) ==
  [g EXCEPT !.frame = g.parentsStack[i + 1],
            !.parentsStack = SubSeq(@, 1, Len(@) - 1),
            !.evaluating = SubSeq(@, 1, Len(@) - 1)]

\* capturingParentsEpochs(f), f the deriving function of d: push a fresh frame,
\* run f, return frame i, and pop the frame.
capturingParentsEpochs(g, d) ==
  PopFrame(RunFn(Attempt([g EXCEPT !.parentsStack = Append(@, <<>>),
                                   !.evaluating = Append(@, d),
                                   !.ran = Append(@, d)], d), d, <<>>),
           Len(g.parentsStack))

\* After the deriving function of d returned in c: set up the links, compare
\* the derived value (ret) with the current state.
Settled(c, d) ==
  LET g2 == [Link(c, d, FrameNodes(c.frame)) EXCEPT !.evald = Append(@, d)]
  IN IF Equals(d, c.ret, c.val[d])
     THEN [Paint(g2, d, "White") EXCEPT !.ret = c.val[d]]
     ELSE [Paint(g2, d, "Red") EXCEPT !.val[d] = c.ret]

\* Whether the deriving function threw.
Threw(g) == g.err

\* After the deriving function of d ran in c: an error goes on to the caller
\* of get(), and the derivation is left as it is.
Settle(c, d) == IF Threw(c) THEN c ELSE Settled(c, d)

\* Whether the deriving function of d is executing on the call stack.
Cyclic(g, d) == SeqHas(g.evaluating, d)

\* Green (and black with a red parent): evaluate the deriving function in a
\* capturing context, unless it is being evaluated already.
Evaluate(g, d) ==
  IF Cyclic(g, d)
  THEN [g EXCEPT !.err = TRUE]
  ELSE Settle(capturingParentsEpochs(Unlink(g, d), d), d)

\* Black: parent i of d has been dereferenced.
Interrogated(g, d, i) ==
  IF g.err
  THEN g
  ELSE IF g.color[g.parents[d][i]] = "Red"
       THEN Evaluate(g, d)
       ELSE Interrogate(g, d, i + 1)

\* Black, no parent red yet: dereference the black and green parents in order.
Interrogate(g, d, i) ==
  IF i > Len(g.parents[d])
  THEN [Paint(g, d, "White") EXCEPT !.ret = g.val[d]]
  ELSE IF g.color[g.parents[d][i]] \in {"Black", "Green"}
       THEN Interrogated(Resolve(g, g.parents[d][i]), d, i)
       ELSE Interrogate(g, d, i + 1)

\* A variant of Resolve that trusts the cached state of white nodes only.
Reevaluate(g, d) ==
  IF g.color[d] = "White" THEN [g EXCEPT !.ret = g.val[d]] ELSE Evaluate(g, d)

\* Dereferencing a derivation, by colour.
Resolve(g, d) ==
  CASE g.color[d] \in {"White", "Red"} -> [g EXCEPT !.ret = g.val[d]]
    [] g.color[d] = "Green" -> Evaluate(g, d)
    [] OTHER ->
         IF \E i \in 1..Len(g.parents[d]) : g.color[g.parents[d][i]] = "Red"
         THEN Evaluate(g, d)
         ELSE Interrogate(g, d, 1)

\* Mark phase over the children cs of a node.
MarkKids(g, cs) ==
  IF Len(cs) = 0
  THEN g
  ELSE LET c == Head(cs)
       IN IF c \in Reactors
          THEN MarkKids(Enqueue([g EXCEPT !.found = Append(@, c)], c), Tail(cs))
          ELSE IF Markable(g, c)
               THEN MarkKids(MarkKids(Paint(g, c, "Black"), g.children[c]),
                             Tail(cs))
               ELSE MarkKids(g, Tail(cs))

\* The reacting function of r ends: an error it throws is collected.
Thrown(g, r) == IF Throws(r) THEN [g EXCEPT !.errs = Append(@, r)] ELSE g

\* The collected errors are reported to the caller.
Report(g) == IF Len(g.errs) > 0 THEN [g EXCEPT !.err = TRUE] ELSE g

\* Running a reacting function.
React(g, r, v) ==
  [Thrown(Stops(Attempt([g EXCEPT !.reacting = @ + 1,
                                  !.fired = Append(@, <<r, v>>)], r), r), r)
     EXCEPT !.reacting = @ - 1]

\* The reaction at the head of the queue, its parent dereferenced if it was
\* black, decides by the parent's colour; then the rest of the queue.
Decide(g) ==
  LET r == Head(g.queue)
  IN IF IsActive(g, r) /\ ShouldReact(g, r)
     THEN Notify([React(g, r, g.val[Parent(r)]) EXCEPT !.queue = Tail(@)])
     ELSE Notify([g EXCEPT !.queue = Tail(@)])

\* Notify phase: consume the reaction queue.
Notify(g) ==
  IF Len(g.queue) = 0
  THEN g
  ELSE LET r == Head(g.queue)
       IN IF IsActive(g, r) /\ g.color[Parent(r)] = "Black"
          THEN Decide(Resolve(g, Parent(r)))
          ELSE Decide(g)

RECURSIVE SweepEager(_, _)
\* A variant of SweepKids that dereferences a black node instead of detaching it.
SweepEager(g, cs) ==
  IF Len(cs) = 0
  THEN g
  ELSE LET c == Head(cs)
       IN IF c \in Reactors
          THEN SweepEager(g, Tail(cs))
          ELSE CASE g.color[c] = "Red" ->
                      SweepEager(SweepEager(Reconcile(g, c),
                                            g.children[c]), Tail(cs))
                 [] g.color[c] = "Black" -> SweepEager(Resolve(g, c), Tail(cs))
                 [] OTHER -> SweepEager(g, Tail(cs))

\* Sweep phase over the children cs of a node.
SweepKids(g, cs) ==
  IF Len(cs) = 0
  THEN g
  ELSE LET c == Head(cs)
       IN IF c \in Reactors
          THEN SweepKids(g, Tail(cs))
          ELSE CASE g.color[c] = "Red" ->
                      SweepKids(SweepKids(Reconcile(g, c),
                                          g.children[c]), Tail(cs))
                 [] g.color[c] = "Black" -> SweepKids(Detach(g, c), Tail(cs))
                 [] OTHER -> SweepKids(g, Tail(cs))

MarkAll(g, as) ==
  IF Len(as) = 0 THEN g ELSE MarkAll(MarkKids(g, g.children[Head(as)]), Tail(as))

SweepAll(g, as) ==
  IF Len(as) = 0 THEN g ELSE SweepAll(SweepKids(g, g.children[Head(as)]), Tail(as))

\* One propagation cycle from the written atoms: mark, notify, sweep.
Propagate(g, as) ==
  Report(SweepAll(Notify(MarkAll([g EXCEPT !.queue = <<>>], as)), as))

\* Atom.set(v).
AtomSet(g, a, v) ==
  IF OnStack(g)
  THEN [g EXCEPT !.err = TRUE]
  ELSE IF Unchanged(g, a, v)
       THEN [g EXCEPT !.writes = @ + 1]
       ELSE IF InTransaction(g)
            THEN [Paint(Track(g, a), a, "Red") EXCEPT !.writes = @ + 1, !.val[a] = v]
            ELSE IF Ticking(g)
                 THEN [Paint(g, a, "Red") EXCEPT !.writes = @ + 1, !.val[a] = v,
                                                 !.pending = SeqAdd(@, a)]
                 ELSE Propagate([Paint(g, a, "Red") EXCEPT !.writes = @ + 1,
                                                           !.val[a] = v], <<a>>)

\* A variant of WriteParent that writes the root atom twice.
WriteTwice(g, l, c) ==
  LET p == LensParent(l)
      nv == LensSetFn(l, g.ret, c)
  IN IF p \in Atoms
     THEN AtomSet(AtomSet(g, p, nv), p, nv)
     ELSE LensSet(g, p, nv)

\* Lens.set(c), the parent dereferenced (ret): write set(ret, c) to the parent.
WriteParent(g, l, c) ==
  LET p == LensParent(l)
      nv == LensSetFn(l, g.ret, c)
  IN IF p \in Atoms THEN AtomSet(g, p, nv) ELSE LensSet(g, p, nv)

\* Lens.set(c): write set(parent.get(), c) to the parent, up to the root atom.
LensSet(g, l, c) == WriteParent(DoGet(g, LensParent(l)), l, c)

\* A variant of Start that starts the reactor whether or not it is active.
Restart(g, r) ==
  Hook(DoGet([g EXCEPT !.active[r] = TRUE,
                       !.children[Parent(r)] = SeqAdd(@, r)], Parent(r)),
       "onStart", r)

\* A variant of Start that does not dereference the parent.
StartUnresolved(g, r) ==
  IF g.active[r]
  THEN g
  ELSE Hook([g EXCEPT !.active[r] = TRUE,
                      !.children[Parent(r)] = SeqAdd(@, r)],
            "onStart", r)

\* Reactor.start().
Start(g, r) ==
  IF g.active[r]
  THEN g
  ELSE Hook(DoGet([g EXCEPT !.active[r] = TRUE,
                            !.children[Parent(r)] = SeqAdd(@, r)], Parent(r)),
            "onStart", r)

\* Reactor.force(), the parent dereferenced (ret): run the reacting function.
Forced(g, r) == Report(React(g, r, g.ret))

\* Reactor.force(): react to the value parent.get() returns.
Force(g, r) == Forced(DoGet(g, Parent(r)), r)

\* transact(f), on entry.
Enter(g) ==
  IF g.txnDepth = 0
  THEN [g EXCEPT !.txnDepth = 1, !.txnAtoms = <<>>,
                 !.txnOld = [a \in Atoms |-> NoOld]]
  ELSE [g EXCEPT !.txnDepth = @ + 1]

\* A variant of AtomicallyEnter that always opens a transaction.
AlwaysEnter(g) == Enter(g)

\* atomically(f), on entry: as transact, unless a transaction is open; then f
\* runs inline, and its return or throw is that of a plain function call.
AtomicallyEnter(g) == IF InTransaction(g) THEN g ELSE Enter(g)

\* transact(f), when f returns: the outermost call propagates the writes.
Commit(g) ==
  IF g.txnDepth = 1
  THEN Propagate([g EXCEPT !.txnDepth = 0, !.txnAtoms = <<>>,
                           !.txnOld = [a \in Atoms |-> NoOld]], g.txnAtoms)
  ELSE [g EXCEPT !.txnDepth = @ - 1]

\* The atoms as written in the transaction get their state and color of
\* before the transaction back.
RECURSIVE Restore(_, _)
Restore(g, as) ==
  IF Len(as) = 0
  THEN g
  ELSE Restore([Paint(g, Head(as), g.txnOld[Head(as)].color)
                  EXCEPT !.val[Head(as)] = g.txnOld[Head(as)].val], Tail(as))

\* transact(f), when f throws: the outermost call restores the written atoms.
Abort(g) ==
  IF g.txnDepth = 1
  THEN [Restore(g, g.txnAtoms) EXCEPT !.err = TRUE, !.txnDepth = 0, !.txnAtoms = <<>>,
                                      !.txnOld = [a \in Atoms |-> NoOld]]
  ELSE [g EXCEPT !.err = TRUE, !.txnDepth = @ - 1]

\* ticker(): a new live ticker.
NewTicker(g, t) == [g EXCEPT !.tickers[t] = "alive"]

\* Run all pending reactions: one propagation cycle from the atoms written
\* since the last tick.
Flush(g) == Propagate([g EXCEPT !.pending = <<>>], g.pending)

\* Ticker.tick(); a released ticker may not be used.
Tick(g, t) ==
  IF g.tickers[t] # "alive" THEN [g EXCEPT !.err = TRUE] ELSE Flush(g)

\* Ticker.release(), the ticker marked as released.
Released(g) == IF Ticking(g) THEN g ELSE Flush(g)

\* Ticker.release(): the last live ticker to go runs what is pending.
Release(g, t) ==
  IF g.tickers[t] # "alive"
  THEN [g EXCEPT !.err = TRUE]
  ELSE Released([g EXCEPT !.tickers[t] = "done"])

----
\* A variant of Fresh for which every new node is green.
AllGreen(n) == "Green"

\* The color of a new node: atoms are white, derivations and reactions green.
Fresh(n) == IF n \in Atoms THEN "White" ELSE "Green"

Init ==
  /\ color = [n \in Nodes \cup Reactors |-> Fresh(n)]
  /\ val = [n \in Nodes |-> IF n \in Atoms THEN 0 ELSE NoVal]
  /\ parents = [d \in Nodes \ Atoms |-> <<>>]
  /\ children = [n \in Nodes |-> <<>>]
  /\ active = [r \in Reactors |-> FALSE]
  /\ parentsStack = <<>>
  /\ reacting = 0
  /\ txnDepth = 0
  /\ txnAtoms = <<>>
  /\ txnOld = [a \in Atoms |-> NoOld]
  /\ tickers = [t \in TickerIds |-> "new"]
  /\ pending = <<>>
  /\ owner = [r \in Reactors |-> NoOwner]
  /\ txnPre = [a \in Atoms |-> NoOld]

\* The state after a call that ended in g.
Install(g) ==
  /\ color' = g.color
  /\ val' = g.val
  /\ parents' = g.parents
  /\ children' = g.children
  /\ active' = g.active
  /\ parentsStack' = g.parentsStack
  /\ reacting' = g.reacting
  /\ txnDepth' = g.txnDepth
  /\ txnAtoms' = g.txnAtoms
  /\ txnOld' = g.txnOld
  /\ tickers' = g.tickers
  /\ pending' = g.pending
  /\ owner' = g.owner

\* a.set(v), from application code (outside every user function).
Set(a, v) == Install(AtomSet(Cur, a, v)) /\ UNCHANGED txnPre

\* x.get(), from application code.
Get(n) == Install(DoGet(Cur, n)) /\ UNCHANGED txnPre

\* l.set(c), from application code.
SetLens(l, c) == Install(LensSet(Cur, l, c)) /\ UNCHANGED txnPre

StartReactor(r) == Install(Start(Cur, r)) /\ UNCHANGED txnPre

StopReactor(r) == Install(Stop(Cur, r)) /\ UNCHANGED txnPre

ForceReactor(r) == Install(Force(Cur, r)) /\ UNCHANGED txnPre

\* transact(f) is entered; what f does are the calls that follow.
TxnEnter ==
  /\ txnDepth < MaxDepth
  /\ Install(Enter(Cur))
  /\ txnPre' = IF txnDepth = 0
               THEN [a \in Atoms |-> [val |-> val[a], color |-> color[a]]]
               ELSE txnPre

\* atomically(f) is entered; what f does are the calls that follow.
TxnAtomically ==
  /\ Install(AtomicallyEnter(Cur))
  /\ txnPre' = IF txnDepth = 0
               THEN [a \in Atoms |-> [val |-> val[a], color |-> color[a]]]
               ELSE txnPre

\* The function passed to transact, or to an atomically that opened a
\* transaction, returns.
TxnReturn ==
  /\ txnDepth > 0
  /\ Install(Commit(Cur))
  /\ txnPre' = IF txnDepth = 1 THEN [a \in Atoms |-> NoOld] ELSE txnPre

\* The function passed to transact throws.
TxnThrow ==
  /\ txnDepth > 0
  /\ Install(Abort(Cur))
  /\ txnPre' = IF txnDepth = 1 THEN [a \in Atoms |-> NoOld] ELSE txnPre

\* Application code that uses no transaction.
Next ==
  \/ \E a \in Atoms, v \in Val : Set(a, v)
  \/ \E n \in Derivables : Get(n)
  \/ \E l \in Lenses, c \in Bit : SetLens(l, c)
  \/ \E r \in Loggers : StartReactor(r)
  \/ \E r \in Loggers : StopReactor(r)

Spec == Init /\ [][Next]_vars

\* Application code that uses transactions, over a1, a2, l1, d and r1.
NextTxn ==
  \/ \E a \in Atoms, v \in Val : Set(a, v)
  \/ Get("d")
  \/ \E c \in Bit : SetLens("l1", c)
  \/ StartReactor("r1")
  \/ StopReactor("r1")
  \/ TxnAtomically
  \/ TxnEnter
  \/ TxnReturn
  \/ TxnThrow

SpecTxn == Init /\ [][NextTxn]_vars

\* The application creates its tickers in order.
TickerCreate(t) ==
  /\ tickers[t] = "new"
  /\ \A u \in TickerIds : u < t => tickers[u] # "new"
  /\ Install(NewTicker(Cur, t))
  /\ UNCHANGED txnPre

\* t.tick(), on a ticker the application holds.
TickerTick(t) ==
  /\ tickers[t] # "new"
  /\ Install(Tick(Cur, t))
  /\ UNCHANGED txnPre

\* t.release(), on a ticker the application holds.
TickerRelease(t) ==
  /\ tickers[t] # "new"
  /\ Install(Release(Cur, t))
  /\ UNCHANGED txnPre

\* Application code that uses tickers, over a1, a2, d, r1 and r3.
NextTick ==
  \/ \E a \in Atoms, v \in Val : Set(a, v)
  \/ Get("d")
  \/ \E r \in {"r1", "r3"} : StartReactor(r)
  \/ \E r \in {"r1", "r3"} : StopReactor(r)
  \/ \E t \in TickerIds : TickerCreate(t)
  \/ \E t \in TickerIds : TickerTick(t)
  \/ \E t \in TickerIds : TickerRelease(t)

SpecTick == Init /\ [][NextTick]_vars

\* Application code that starts and stops reactions, one of which stops
\* another from its reacting function: a1, a2, d, r1 and r4.
NextLife ==
  \/ \E a \in Atoms, v \in Val : Set(a, v)
  \/ \E r \in {"r1", "r4"} : StartReactor(r)
  \/ \E r \in {"r1", "r4"} : StopReactor(r)
  \/ \E r \in {"r1", "r4"} : ForceReactor(r)

SpecLife == Init /\ [][NextLife]_vars

\* Application code that only writes atoms and starts and stops the logging
\* reactions, so that derivations are evaluated by reactions alone.
NextReact ==
  \/ \E a \in Atoms, v \in Val : Set(a, v)
  \/ \E r \in Loggers : StartReactor(r)
  \/ \E r \in Loggers : StopReactor(r)

SpecReact == Init /\ [][NextReact]_vars

AdoptReactor(o, c) == Install(Adopt(Cur, o, c)) /\ UNCHANGED txnPre

OrphanReactor(r) == Install(Orphan(Cur, r)) /\ UNCHANGED txnPre

\* Application code that makes reactions depend on reactions: a1, a2, d, r1,
\* r3 and r4.
NextOwn ==
  \/ \E a \in Atoms, v \in Val : Set(a, v)
  \/ \E r \in {"r1", "r3", "r4"} : StartReactor(r)
  \/ \E r \in {"r1", "r3", "r4"} : StopReactor(r)
  \/ \E o, c \in {"r1", "r3", "r4"} : AdoptReactor(o, c)
  \/ \E r \in {"r1", "r3", "r4"} : OrphanReactor(r)

SpecOwn == Init /\ [][NextOwn]_vars

\* Application code with a reaction whose reacting function throws: a1, a2,
\* d, r1, r3 and r5.
NextErr ==
  \/ \E a \in Atoms, v \in Val : Set(a, v)
  \/ \E r \in {"r1", "r3", "r5"} : StartReactor(r)
  \/ \E r \in {"r1", "r3", "r5"} : StopReactor(r)

SpecErr == Init /\ [][NextErr]_vars

\* Application code that dereferences the derivations that may read
\* themselves: a1, a2, c1, c2 and d.
NextCyc ==
  \/ \E a \in Atoms, v \in Val : Set(a, v)
  \/ \E n \in Cyclics \cup {"d"} : Get(n)

SpecCyc == Init /\ [][NextCyc]_vars

\* Application code that dereferences derivations whose deriving function may
\* throw: a1, a2, l1, e, c1 and c2.
NextThrow ==
  \/ \E a \in Atoms, v \in Val : Set(a, v)
  \/ \E n \in Cyclics \cup Faulty \cup {"l1"} : Get(n)

SpecThrow == Init /\ [][NextThrow]_vars
----
(***************************************************************************)
(* Vocabulary of the properties.                                           *)
(***************************************************************************)
RECURSIVE Denote(_, _), DenoteFn(_, _, _)
\* What a derivable denotes: its deriving function applied to what the nodes it
\* reads denote, down to the current values of the atoms.
Denote(g, n) == IF n \in Atoms THEN g.val[n] ELSE DenoteFn(g, n, <<>>)
DenoteFn(g, d, seen) ==
  LET step == DerivStep(d, seen)
  IN IF step.done THEN step.value
     ELSE DenoteFn(g, d, Append(seen, Denote(g, step.node)))

\* The values reactor r was invoked with, in order.
FiredOf(g, r) ==
  LET hits == SelectSeq(g.fired, LAMBDA e : e[1] = r)
  IN [i \in 1..Len(hits) |-> hits[i][2]]

\* The derivations whose deriving function ran.
Evald(g) == {g.evald[i] : i \in 1..Len(g.evald)}

----
\* The results of the calls the function passed to transact can make while it
\* runs: writes, reads, lens writes, reactor starts and stops, nested transact.
CallsInside(g) ==
  {AtomSet(g, a, v) : a \in Atoms, v \in Val}
    \cup {DoGet(g, n) : n \in Derivables}
    \cup {LensSet(g, l, c) : l \in Lenses, c \in Bit}
    \cup {Start(g, r) : r \in Reactors}
    \cup {Stop(g, r) : r \in Reactors}
    \cup {Enter(g)}
    \cup (IF g.txnDepth > 1 THEN {Commit(g)} ELSE {})

\* C1 (glitch-freedom): while the function of an outermost transact runs, no
\* call it makes invokes a reaction; when it returns, the commit invokes each
\* active reaction at most once, and with the value its parent denotes under
\* the values the atoms have after all of the writes of the transaction.
C1_GlitchFree ==
  /\ txnDepth > 0 => \A h \in CallsInside(Cur) : h.fired = <<>>
  /\ txnDepth = 1 =>
       LET g == Commit(Cur)
       IN \A r \in Reactors :
            /\ Len(FiredOf(g, r)) <= 1
            /\ Len(FiredOf(g, r)) = 1 =>
                 /\ active[r]
                 /\ FiredOf(g, r)[1] = Denote(Cur, Parent(r))

\* A transaction has written both atoms and its commit invokes a reaction.
C1_Witness ==
  /\ txnDepth = 1
  /\ Len(txnAtoms) = 2
  /\ Commit(Cur).fired # <<>>

----
\* C2 (freshness): in every state reached by atom writes, gets, lens writes and
\* reactor starts and stops outside transactions, get() on a derivation returns
\* what the derivation denotes under the current values of the atoms.
C2_Freshness ==
  \A d \in Derivs : DoGet(Cur, d).ret = Denote(Cur, d)

\* A derivation holds a state cached from earlier atom values and get() sees it.
C2_Witness ==
  \E d \in Derivs :
    /\ val[d] # NoVal
    /\ val[d] # Denote(Cur, d)
    /\ DoGet(Cur, d).ret = Denote(Cur, d)

----
\* The results of the calls application code can make outside a transaction,
\* each with the derivables the call reads directly.
Calls(g) ==
  {[g |-> AtomSet(g, a, v), reads |-> {}] : a \in Atoms, v \in Val}
    \cup {[g |-> DoGet(g, n), reads |-> {n}] : n \in Derivables}
    \cup {[g |-> LensSet(g, l, c), reads |-> {LensParent(l)}] : l \in Lenses, c \in Bit}
    \cup {[g |-> Start(g, r), reads |-> {Parent(r)}] : r \in {x \in Reactors : ~g.active[x]}}
    \cup {[g |-> Stop(g, r), reads |-> {}] : r \in Reactors}

RECURSIVE Ancestors(_, _), ReadsOf(_, _, _)
\* n and the derivables the deriving function of n transitively reads, under
\* the values the atoms have in g.
Ancestors(g, n) == IF n \in Atoms THEN {n} ELSE ReadsOf(g, n, <<>>) \cup {n}
ReadsOf(g, d, seen) ==
  LET step == DerivStep(d, seen)
  IN IF step.done THEN {}
     ELSE Ancestors(g, step.node)
            \cup ReadsOf(g, d, Append(seen, Denote(g, step.node)))

\* The transitive ancestors of the active reactions of g.
Watched(g) == UNION {Ancestors(g, Parent(r)) : r \in {x \in Reactors : g.active[x]}}

\* C3 (laziness): a call invokes the deriving function only of derivations that
\* the call reads directly (with their ancestors) or that are transitive
\* ancestors of an active reaction; whatever values the atoms are set to, no
\* other deriving function runs.
C3_Laziness ==
  \A c \in Calls(Cur) :
    Evald(c.g) \subseteq
      Watched(Cur) \cup Watched(c.g)
        \cup UNION {Ancestors(Cur, n) \cup Ancestors(c.g, n) : n \in c.reads}

\* A derivation holds a state that a write has made out of date, nothing
\* watches it, and a further write leaves its deriving function alone.
C3_Witness ==
  \E d \in Derivs, a \in Atoms, v \in Val :
    /\ val[d] # NoVal
    /\ val[d] # Denote(Cur, d)
    /\ d \notin Watched(Cur)
    /\ ~Unchanged(Cur, a, v)
    /\ a \in Ancestors(Cur, d)
    /\ d \notin Evald(AtomSet(Cur, a, v))

\* C4 (notification): outside transactions, Atom.set invokes an active
\* reaction exactly once, with the new value of its parent, when the value of
\* the parent changes, and does not invoke it when the value of the parent
\* after the write is equal to the value before.
C4_ReactOnChange ==
  \A a \in Atoms, v \in Val :
    LET g == AtomSet(Cur, a, v)
    IN \A r \in Reactors :
         active[r] =>
           LET p == Parent(r)
           IN IF Equals(p, g.val[p], val[p])
              THEN FiredOf(g, r) = <<>>
              ELSE FiredOf(g, r) = <<g.val[p]>>

\* A write changes the value of a derivation (not an atom) that an active
\* reaction has for parent, and another write leaves it equal.
C4_Witness ==
  /\ active["r1"]
  /\ \E a \in Atoms, v \in Val : FiredOf(AtomSet(Cur, a, v), "r1") # <<>>
  /\ \E a \in Atoms, v \in Val :
       /\ ~Unchanged(Cur, a, v)
       /\ "d" \in Evald(AtomSet(Cur, a, v))
       /\ FiredOf(AtomSet(Cur, a, v), "r1") = <<>>

\* C5 (no-op write): Atom.set(x), with x equal to the current value under the
\* equality function of the atom, changes no color, value, parent set or child
\* set, runs no deriving function and invokes no reaction.
C5_NoOpWrite ==
  \A a \in Atoms, v \in Val :
    Equals(a, v, val[a]) =>
      LET g == AtomSet(Cur, a, v)
      IN /\ Core(g) = Core(Cur)
         /\ g.evald = <<>>
         /\ g.fired = <<>>

\* An equal but not identical value is written to an atom that has a watched
\* derivation and an active reaction below it.
C5_Witness ==
  /\ active["r1"] /\ active["r3"]
  /\ "a2" \in Ancestors(Cur, "d")
  /\ \E v \in Val : v # val["a2"] /\ Equals("a2", v, val["a2"])

----
\* C6 (rollback): while a transaction is open no write changes the color of a
\* derivation, runs a deriving function or invokes a reaction; and when the
\* function of the outermost transact throws, every atom has the value and the
\* color it had before the transaction, no derivation changes color, nothing
\* is evaluated or invoked, the depth is 0 and the error reaches the caller.
C6_Rollback ==
  /\ txnDepth > 0 =>
       \A a \in Atoms, v \in Val :
         LET h == AtomSet(Cur, a, v)
         IN /\ h.fired = <<>> /\ h.evald = <<>>
            /\ \A d \in Derivs : h.color[d] = color[d] /\ h.val[d] = val[d]
            /\ h.parents = parents /\ h.children = children
  /\ txnDepth = 1 =>
       LET g == Abort(Cur)
       IN /\ \A a \in Atoms :
               g.val[a] = txnPre[a].val /\ g.color[a] = txnPre[a].color
          /\ \A d \in Derivs : g.color[d] = color[d]
          /\ g.fired = <<>> /\ g.evald = <<>>
          /\ g.txnDepth = 0
          /\ g.err

\* The outermost transaction has written both atoms, changing the value and
\* the color of one of them, below which an active reaction watches.
C6_Witness ==
  /\ txnDepth = 1
  /\ Len(txnAtoms) = 2
  /\ active["r1"]
  /\ \E a \in Atoms : val[a] # txnPre[a].val /\ color[a] # txnPre[a].color

\* C7 (cyclic-write rejection): an Atom.set attempted by a deriving function
\* or by a reacting function fails, and leaves the value of every atom and the
\* color, value, parents and children of every node as they were.
C7_CyclicWrite ==
  \A c \in Calls(Cur) :
    \A i \in 1..Len(c.g.attempts) :
      c.g.attempts[i].rejected /\ c.g.attempts[i].unchanged

\* One call makes a deriving function and a reacting function attempt a write.
C7_Witness ==
  \E c \in Calls(Cur) :
    /\ \E i \in 1..Len(c.g.attempts) : c.g.attempts[i].by = "d"
    /\ \E i \in 1..Len(c.g.attempts) : c.g.attempts[i].by = "r2"

\* The derivations only reaction r watches.
ChainOf(g, r) ==
  (Ancestors(g, Parent(r)) \ Atoms)
    \ UNION {Ancestors(g, Parent(x)) : x \in {y \in Reactors \ {r} : g.active[y]}}

\* C8 (detachment): once an active reaction is stopped, the atom writes that
\* follow invoke no deriving function of the chain of derivations that only
\* this reaction watched.
C8_Detachment ==
  \A r \in Reactors :
    active[r] =>
      \A a \in Atoms, v \in Val :
        LET g1 == AtomSet(Stop(Cur, r), a, v)
            chain == ChainOf(Cur, r) \cup ChainOf(g1, r)
        IN \A b \in Atoms, w \in Val : Evald(AtomSet(g1, b, w)) \cap chain = {}

\* A reaction is the only one to watch two derivations, and a write upstream
\* re-evaluates them as long as it runs.
C8_Witness ==
  \E r \in Reactors, a \in Atoms, v \in Val :
    /\ active[r]
    /\ Cardinality(ChainOf(Cur, r)) = 2
    /\ ChainOf(Cur, r) \subseteq Evald(AtomSet(Cur, a, v))

\* C9 (lens round trip): for each lens, whose functions satisfy
\* get(set(p, c)) = c, get() returns c immediately after set(c), whatever the
\* color and the state of the lens before.
C9_RoundTrip ==
  \A l \in Lenses, c \in Bit : DoGet(LensSet(Cur, l, c), l).ret = c

\* C10 (one write per lens set): set on a lens over a lens over an atom makes
\* one write to the root atom, and the one propagation cycle invokes each
\* reaction at most once.
C10_OneWrite ==
  \A l \in Lenses, c \in Bit :
    LET g == LensSet(Cur, l, c)
    IN /\ g.writes = 1
       /\ \A r \in Reactors : Len(FiredOf(g, r)) <= 1

\* set on the lens over a lens changes the root atom and invokes two reactions.
C10_Witness ==
  \E c \in Bit :
    LET g == LensSet(Cur, "l2", c)
    IN /\ g.val["a1"] # val["a1"]
       /\ FiredOf(g, "r1") # <<>>
       /\ FiredOf(g, "r2") # <<>>

----
\* C11 (tickers): while at least one ticker is alive, no Atom.set and no lens
\* write invokes a reaction; tick() on a live ticker invokes, once and with
\* the value its parent then has, every active reaction whose parent is an
\* atom written since the last tick or a derivation whose state the tick
\* changes, and leaves nothing pending, so that a second tick invokes nothing;
\* and once every ticker has been released, nothing is pending and Atom.set
\* invokes the reactions on the written atom immediately again.
C11_Ticker ==
  LET alive == {t \in TickerIds : tickers[t] = "alive"}
  IN /\ alive # {} =>
          /\ \A a \in Atoms, v \in Val : AtomSet(Cur, a, v).fired = <<>>
          /\ \A l \in Lenses, c \in Bit : LensSet(Cur, l, c).fired = <<>>
          /\ \A t \in alive :
               LET g == Tick(Cur, t)
               IN /\ g.pending = <<>>
                  /\ Tick(g, t).fired = g.fired
                  /\ \A r \in Reactors :
                       LET p == Parent(r)
                       IN active[r] /\ (SeqHas(pending, p) \/ g.val[p] # val[p]) =>
                            FiredOf(g, r) = <<g.val[p]>>
     /\ alive = {} =>
          /\ pending = <<>>
          /\ \A a \in Atoms, v \in Val, r \in Reactors :
               active[r] /\ Parent(r) = a /\ ~Equals(a, v, val[a]) =>
                 FiredOf(AtomSet(Cur, a, v), r) = <<v>>

\* One ticker has been released and the other is alive; both atoms were
\* written since the last tick without a reaction being invoked; tick() invokes
\* the reaction on the atom and the reaction on the derivation; and after the
\* release of the last ticker a write invokes a reaction at once.
C11_Witness ==
  \E t \in TickerIds :
    /\ tickers[t] = "alive"
    /\ \E u \in TickerIds : tickers[u] = "done"
    /\ Len(pending) = 2
    /\ FiredOf(Tick(Cur, t), "r1") # <<>>
    /\ FiredOf(Tick(Cur, t), "r3") # <<>>
    /\ \E a \in Atoms, v \in Val :
         AtomSet(Release(Tick(Cur, t), t), a, v).fired # Tick(Cur, t).fired

----
\* C12 (idempotent start and stop): start() on an active reaction and stop()
\* on an inactive reaction change nothing, the active flags, the colors and
\* the child sets included, dereference nothing and call neither onStart nor
\* onStop; a reaction started twice has onStart called once, and a reaction
\* stopped twice has onStop called once.
C12_StartStopNoOp ==
  \A r \in Reactors :
    /\ active[r] =>
         /\ Start(Cur, r) = Cur
         /\ Stop(Stop(Cur, r), r).hooks = <<<<"onStop", r>>>>
    /\ ~active[r] =>
         /\ Stop(Cur, r) = Cur
         /\ Start(Start(Cur, r), r).hooks = <<<<"onStart", r>>>>

\* An active reaction that shares its parent with another child, and an
\* inactive reaction on a derivation that was evaluated before.
C12_Witness ==
  /\ \E r \in Reactors :
       /\ active[r]
       /\ Len(children[Parent(r)]) > 1
  /\ \E r \in Reactors :
       /\ ~active[r]
       /\ Parent(r) \in Derivs
       /\ val[Parent(r)] # NoVal

----
\* The results of the calls that run a propagation cycle: Atom.set and lens
\* writes outside a transaction, and the commit of transact(() => a.set(v)).
Cycles(g) ==
  {AtomSet(g, a, v) : a \in Atoms, v \in Val}
    \cup {LensSet(g, l, c) : l \in Lenses, c \in Bit}
    \cup {Commit(AtomSet(Enter(g), a, v)) : a \in Atoms, v \in Val}

----
\* C14 (nested transactions): the return of a transact that runs inside an
\* open transaction invokes no reaction, runs no deriving function, changes
\* no color, value or link and keeps the written atoms staged; atomically
\* entered inside an open transaction opens nothing, and a write made in it is
\* staged like any other write of the transaction; the writes propagate when
\* the outermost transact returns, which invokes each active reaction whose
\* parent they changed; and atomically entered outside every transaction does
\* what transact does.
C14_NestedDeferred ==
  /\ txnDepth > 1 =>
       LET g == Commit(Cur)
       IN /\ g.fired = <<>> /\ g.evald = <<>>
          /\ Core(g) = Core(Cur)
          /\ g.txnAtoms = txnAtoms /\ g.txnOld = txnOld
          /\ g.txnDepth = txnDepth - 1
  /\ txnDepth > 0 =>
       /\ AtomicallyEnter(Cur) = Cur
       /\ \A a \in Atoms, v \in Val :
            LET h == AtomSet(AtomicallyEnter(Cur), a, v)
            IN /\ h.fired = <<>> /\ h.evald = <<>>
               /\ \A d \in Derivs : h.color[d] = color[d]
               /\ ~Equals(a, v, val[a]) => SeqHas(h.txnAtoms, a)
  /\ txnDepth = 2 =>
       LET g == Commit(Commit(Cur))
       IN \A r \in Reactors :
            LET p == Parent(r)
            IN active[r] /\ (SeqHas(txnAtoms, p) \/ g.val[p] # val[p]) =>
                 FiredOf(g, r) = <<g.val[p]>>
  /\ txnDepth = 0 => AtomicallyEnter(Cur) = Enter(Cur)

\* A transact runs inside a transaction that has written an atom, and the
\* return of the outer one, not of the inner one, invokes a reaction.
C14_Witness ==
  /\ txnDepth = 2
  /\ txnAtoms # <<>>
  /\ Commit(Cur).fired = <<>>
  /\ FiredOf(Commit(Commit(Cur)), "r1") # <<>>

----
\* The color changes the specification lists as legal.
Legal ==
  {<<"Green", "White">>, <<"Green", "Red">>, <<"White", "Black">>,
   <<"Red", "Black">>, <<"Black", "White">>, <<"Black", "Red">>,
   <<"Black", "Green">>, <<"Red", "White">>}

\* The color changes <<from, to>> a call made.
Changes(g) == {<<g.trans[i][2], g.trans[i][3]>> : i \in 1..Len(g.trans)}

\* The results of the calls application code can make in the current state:
\* writes, gets, lens writes, start, stop and force, tick and release, and
\* transact(() => a.set(v)) with the function returning and throwing.
AnyCall(g) ==
  CallsInside(g)
    \cup {Force(g, r) : r \in Reactors}
    \cup {Tick(g, t) : t \in TickerIds}
    \cup {Release(g, t) : t \in TickerIds}
    \cup {Commit(AtomSet(Enter(g), a, v)) : a \in Atoms, v \in Val}
    \cup {Abort(AtomSet(Enter(g), a, v)) : a \in Atoms, v \in Val}

\* C15 (legal color changes, as stated): every color change of a node that a
\* call makes is Green to White or Red, White to Black, Red to Black, Black to
\* White, Red or Green, or Red to White.
C15_LegalOnly ==
  \A g \in AnyCall(Cur) : Changes(g) \subseteq Legal

\* C15 (legal color changes, amended): every color change of a node that a
\* call makes is one of the listed changes or the change from White to Red of
\* an atom that is written.
C15_LegalOrWrite ==
  \A g \in AnyCall(Cur) :
    \A i \in 1..Len(g.trans) :
      \/ <<g.trans[i][2], g.trans[i][3]>> \in Legal
      \/ g.trans[i][1] \in Atoms /\ g.trans[i][2] = "White" /\ g.trans[i][3] = "Red"

\* A write makes an atom White to Red in a cycle that makes derivations Black,
\* then Red, then White again; a transaction that writes an atom and is rolled
\* back makes it White to Red to White; and some call takes a node out of
\* Green.
C15_Witness ==
  /\ \E a \in Atoms, v \in Val :
       /\ color[a] = "White"
       /\ {<<"White", "Red">>, <<"White", "Black">>, <<"Black", "Red">>, <<"Red", "White">>}
            \subseteq Changes(AtomSet(Cur, a, v))
  /\ \E a \in Atoms, v \in Val :
       Changes(Abort(AtomSet(Enter(Cur), a, v))) = {<<"White", "Red">>, <<"Red", "White">>}
  /\ \E g \in AnyCall(Cur) : \E c \in Changes(g) : c[1] = "Green"

----
\* C16 (green nodes are disconnected): in every reachable state a Green
\* derivation or lens has an empty parent set and an empty child set.
C16_GreenDisconnected ==
  \A d \in Derivs :
    color[d] = "Green" => parents[d] = <<>> /\ children[d] = <<>>

\* A sweep has just detached a Black node that had a child.
C16_Witness ==
  \E d \in Derivs, a \in Atoms, v \in Val :
    LET g == AtomSet(Cur, a, v)
    IN /\ color[d] # "Green"
       /\ children[d] # <<>>
       /\ g.color[d] = "Green"

----
----
\* C18 (atoms are never green): in every reachable state, the states after a
\* write, after a rollback and after a commit's sweep included, no atom is
\* Green.
C18_AtomNeverGreen == \A a \in Atoms : color[a] # "Green"

\* The open transaction has written an atom that was White and has children:
\* a rollback would restore its color, a commit would sweep below it.
C18_Witness ==
  /\ txnDepth = 1
  /\ \E a \in Atoms :
       /\ SeqHas(txnAtoms, a)
       /\ txnOld[a].color = "White"
       /\ Abort(Cur).color[a] = "White"
       /\ children[a] # <<>>
       /\ <<"Black", "Green">> \in Changes(Commit(Cur))

----
RECURSIVE Up(_, _, _)
\* The nodes reached from the nodes S by following parent sets k times.
Up(g, S, k) ==
  IF k = 0
  THEN S
  ELSE Up(g, S \cup UNION {{g.parents[n][i] : i \in 1..Len(g.parents[n])} :
                            n \in S \ Atoms}, k - 1)

\* No node is its own ancestor.
Acyclic(g) ==
  \A n \in DOMAIN g.parents :
    n \notin Up(g, {g.parents[n][i] : i \in 1..Len(g.parents[n])},
                Cardinality(Nodes))

\* Whether the deriving function of c, under the current value of a1, reads c
\* again before it returns.
Loops(g, c) == g.val["a1"] \in {1, 2}

----
----
\* C21 (adopt and orphan): owner.adopt(child) changes nothing when the child
\* is inactive; stops the child, calling its onStop, when the child is active
\* and the owner is not; and when both are active makes the child dependent,
\* so that owner.stop() then stops the child as well, unless child.orphan()
\* was called in between, after which owner.stop() leaves the child active.
C21_Adopt ==
  \A o \in Reactors : \A c \in Reactors \ {o} :
    LET g == Adopt(Cur, o, c)
    IN /\ ~active[c] => g = Cur
       /\ active[c] /\ ~active[o] =>
            /\ ~g.active[c]
            /\ ~SeqHas(g.children[Parent(c)], c)
            /\ SeqHas(g.hooks, <<"onStop", c>>)
       /\ active[c] /\ active[o] =>
            /\ g.active[c] /\ g.active[o]
            /\ ~Stop(g, o).active[c]
            /\ ~SeqHas(Stop(g, o).children[Parent(c)], c)
            /\ Stop(Orphan(g, c), o).active[c]

\* An active reaction has adopted an active reaction that has adopted a third
\* one, and stopping the first stops all three; and an inactive reaction is
\* there to adopt an active one.
C21_Witness ==
  /\ \E o, c, e \in Reactors :
       /\ o # c /\ c # e /\ e # o
       /\ active[o] /\ active[c] /\ active[e]
       /\ owner[c] = o /\ owner[e] = c
       /\ \A r \in {o, c, e} : ~Stop(Cur, o).active[r]
  /\ \E o \in Reactors, c \in Reactors : ~active[o] /\ active[c]
----
\* C22 (red only inside a cycle): in every state between calls, with no
\* transaction open and nothing pending for a tick, no atom, derivation or
\* lens is Red.
C22_NoRedAtRest ==
  txnDepth = 0 /\ pending = <<>> => \A n \in Nodes : color[n] # "Red"

\* An atom was written and a derivation was evaluated for the first time by a
\* direct get(), outside every propagation cycle, and no reaction is active.
C22_Witness ==
  /\ \E a \in Atoms : val[a] # 0
  /\ \E d \in Derivs : val[d] # NoVal /\ parents[d] # <<>>
  /\ \A r \in Reactors : ~active[r]
----
\* The commit of transact(() => { a1.set(v); a2.set(w) }).
Commits(g) ==
  {Commit(AtomSet(AtomSet(Enter(g), "a1", v), "a2", w)) : v \in Val, w \in Val}

\* C23 (at most one evaluation per cycle): one propagation cycle, that of an
\* Atom.set or lens write outside a transaction or that of the commit of an
\* outermost transaction, invokes the deriving function of each derivation at
\* most once.
C23_EvalOnce ==
  \A g \in Cycles(Cur) \cup Commits(Cur) :
    \A i \in 1..Len(g.evald), j \in 1..Len(g.evald) :
      i # j => g.evald[i] # g.evald[j]

\* Three reactions are active, a lens is read by a derivation and by another
\* lens, and one write has all three deriving functions invoked and two
\* reactions on derivations re-run.
C23_Witness ==
  /\ active["r1"] /\ active["r2"] /\ active["r3"]
  /\ SeqHas(children["l1"], "d") /\ SeqHas(children["l1"], "l2")
  /\ \E a \in Atoms, v \in Val :
       LET g == AtomSet(Cur, a, v)
       IN /\ Evald(g) = Derivs
          /\ FiredOf(g, "r1") # <<>>
          /\ FiredOf(g, "r2") # <<>>
----
RECURSIVE Down(_, _, _)
\* The nodes and reactions reached from the nodes S by following child sets
\* k times.
Down(g, S, k) ==
  IF k = 0
  THEN S
  ELSE Down(g, S \cup UNION {{g.children[n][i] : i \in 1..Len(g.children[n])} :
                              n \in S \ Reactors}, k - 1)

\* The nodes and reactions downstream of node n, n included.
Below(g, n) == Down(g, {n}, Cardinality(Nodes))

\* C24 (pruning at any depth): after the propagation cycle of an Atom.set
\* that changes the atom, every derivation that was downstream of the atom and
\* had no active reaction downstream of it is Green and is in no child set.
C24_PrunedBelow ==
  \A a \in Atoms, v \in Val :
    ~Unchanged(Cur, a, v) =>
      LET g == AtomSet(Cur, a, v)
      IN \A d \in (Below(Cur, a) \cap Derivs) :
           (\A r \in Reactors : active[r] => r \notin Below(Cur, d)) =>
             /\ g.color[d] = "Green"
             /\ \A n \in Nodes : ~SeqHas(g.children[n], d)

\* No reaction is active, l2 is a child of l1 and l1 a child of a1, and a
\* write changes a1.
C24_Witness ==
  /\ \A r \in Reactors : ~active[r]
  /\ SeqHas(children["a1"], "l1") /\ SeqHas(children["l1"], "l2")
  /\ color["l1"] # "Green" /\ color["l2"] # "Green"
  /\ \E v \in Val : AtomSet(Cur, "a1", v).color["l1"] = "Green"
----
\* The position of reaction r in the sequence q.
Pos(q, r) == CHOOSE i \in 1..Len(q) : q[i] = r

\* C25 (notification order and value): in the propagation cycle of an
\* Atom.set, a lens write or a transaction commit, the reactions that are
\* invoked are invoked in the order in which the mark phase encountered them,
\* and each is invoked with the value its parent has when the cycle is over.
C25_OrderAndValue ==
  \A g \in Cycles(Cur) \cup Commits(Cur) :
    /\ \A i \in 1..Len(g.fired) : SeqHas(g.found, g.fired[i][1])
    /\ \A i \in 1..Len(g.fired), j \in 1..Len(g.fired) :
         i < j => Pos(g.found, g.fired[i][1]) < Pos(g.found, g.fired[j][1])
    /\ \A i \in 1..Len(g.fired) : g.val[Parent(g.fired[i][1])] = g.fired[i][2]

\* One write has the mark phase encounter the reaction on a derivation before
\* the reaction on the written atom, both are invoked in that order, the first
\* with a value derived during the cycle; and one commit invokes three.
C25_Witness ==
  /\ \E v \in Val :
       LET g == AtomSet(Cur, "a2", v)
       IN /\ Len(g.fired) = 2
          /\ g.fired[1][1] = "r1" /\ g.fired[2][1] = "r3"
          /\ g.fired[1][2] # val["d"]
          /\ "d" \in Evald(g)
  /\ \E g \in Commits(Cur) : Len(g.fired) = 3
----
\* The results of the Atom.set calls, lens writes and transaction commits in
\* whose cycle the reacting function of a reaction throws.
Failed(g) == {h \in Cycles(g) \cup Commits(g) : h.errs # <<>>}

\* C26 (a reacting function throws): in a cycle in which a reacting function
\* throws, every active reaction whose parent's value the cycle changes is
\* invoked with that value, the sweep runs, so that no atom, derivation or
\* lens is Black or Red when the call is over, and the call throws.
C26_ReactionError ==
  \A g \in Failed(Cur) :
    /\ \A r \in Reactors :
         active[r] /\ g.val[Parent(r)] # val[Parent(r)] =>
           FiredOf(g, r) = <<g.val[Parent(r)]>>
    /\ \A n \in Nodes : g.color[n] \notin {"Black", "Red"}
    /\ g.err

\* The throwing reaction and the reaction on a derivation are active, and one
\* write invokes the throwing one first and the other after it.
C26_Witness ==
  /\ active["r5"] /\ active["r1"]
  /\ \E g \in Failed(Cur) :
       /\ Len(g.fired) >= 2
       /\ g.fired[1][1] = "r5"
       /\ FiredOf(g, "r1") # <<>>
----
\* The state a call ended in, as the next call finds it.
Later(g) == [g EXCEPT !.err = FALSE, !.ran = <<>>, !.evald = <<>>]

\* Whether the deriving function of d was invoked in the call that ended in g
\* and threw.
Fails(g, d) == SeqHas(g.ran, d) /\ d \notin Evald(g)

\* C27 (a deriving function throws): when get() on a derivation invokes its
\* deriving function and the function throws, get() throws, the derivation is
\* Green afterwards, whatever its color was, its cached state is the one it
\* had, and the next get() invokes the deriving function again.
C27_EvaluationError ==
  \A d \in Cyclics \cup Faulty :
    LET g == DoGet(Cur, d)
    IN Fails(g, d) =>
         /\ g.err
         /\ g.color[d] = "Green"
         /\ g.val[d] = val[d]
         /\ SeqHas(DoGet(Later(g), d).ran, d)

\* get() on a Black derivation and get() on a Green derivation each invoke a
\* deriving function that throws.
C27_Witness ==
  /\ \E d \in Cyclics \cup Faulty : color[d] = "Black" /\ Fails(DoGet(Cur, d), d)
  /\ \E d \in Cyclics \cup Faulty : color[d] = "Green" /\ Fails(DoGet(Cur, d), d)
----
\* try { ... } catch (e) {} in application code, around a call that ended in g.
Catch(g) == [g EXCEPT !.err = FALSE]

\* transact(() => { a.set(v); throw ... }) called, and its error caught, by
\* the function of the open transaction.
NestedAbort(g, a, v) == Catch(Abort(AtomSet(Enter(g), a, v)))

\* C28 (a nested transact throws): when the function of the outermost
\* transaction calls a transact whose function writes an atom and throws, and
\* catches the error, every atom has the value it had when the nested
\* transact started, and the commit of the outermost transaction invokes the
\* reactions, and leaves the values, that it would have without the nested
\* transact.
C28_NestedRollback ==
  txnDepth = 1 =>
    \A a \in Atoms, v \in Val :
      LET h == NestedAbort(Cur, a, v)
      IN /\ \A b \in Atoms : h.val[b] = val[b]
         /\ Commit(h).fired = Commit(Cur).fired
         /\ Commit(h).val = Commit(Cur).val

\* The outermost transaction has written one atom, a reaction is active that
\* its commit invokes, and a nested transact can change the other atom.
C28_Witness ==
  /\ txnDepth = 1
  /\ Len(txnAtoms) = 1
  /\ active["r1"]
  /\ Commit(Cur).fired # <<>>
  /\ \E a \in Atoms, v \in Val :
       /\ ~SeqHas(txnAtoms, a)
       /\ NestedAbort(Cur, a, v).val[a] # val[a]
----
\* The nodes passed to captureParent while the capture stack was k deep, in
\* call order.
Level(g, k) ==
  LET hits == SelectSeq(g.caps, LAMBDA c : c[1] = k)
  IN [i \in 1..Len(hits) |-> hits[i][2]]

\* The frame of the nodes s: each node followed by its epoch slot.
Slots(s) == [i \in 1..(2 * Len(s)) |-> IF i % 2 = 1 THEN s[(i + 1) \div 2] ELSE 0]

\* C29 (what a capture returns): get() on a Green derivation, called by the
\* application, evaluates it in a capture that returns the nodes passed to
\* captureParent at the level of the deriving function itself, in call order,
\* each followed by its epoch slot, and these become the parent set; a node
\* captured during a nested evaluation is in the frame of the nested
\* evaluation and, unless the deriving function reads it too, not in this one.
C29_Capture ==
  \A d \in Nodes \ Atoms :
    color[d] = "Green" =>
      LET g == DoGet(Cur, d)
      IN ~g.err =>
           /\ g.frame = Slots(Level(g, 1))
           /\ g.parents[d] = Level(g, 1)
           /\ \A x \in Evald(g) \ {d} :
                /\ g.parents[x] # <<>>
                /\ \A i \in 1..Len(g.parents[x]) :
                     \E k \in 2..Len(g.caps) : SeqHas(Level(g, k), g.parents[x][i])

\* get() on a Green derivation evaluates a Green derivation it reads, which
\* captures an atom the outer deriving function does not read.
C29_Witness ==
  \E d \in Nodes \ Atoms :
    /\ color[d] = "Green"
    /\ ~DoGet(Cur, d).err
    /\ Len(Level(DoGet(Cur, d), 1)) >= 1
    /\ \E x \in Evald(DoGet(Cur, d)) \ {d} :
         \E i \in 1..Len(DoGet(Cur, d).parents[x]) :
           ~SeqHas(DoGet(Cur, d).parents[d], DoGet(Cur, d).parents[x][i])

----
\* C30 (the capture stack is restored): in every state between calls, after
\* gets that returned and gets that threw, the capture stack is empty, so
\* that captureParent records nothing and returns -1; and every get() leaves
\* the stack empty, whether or not a deriving function throws.
C30_StackRestored ==
  /\ parentsStack = <<>>
  /\ \A n \in Nodes :
       /\ captureParent(Cur, n) = Cur
       /\ captureParentIdx(Cur, n) = -1
       /\ DoGet(Cur, n).parentsStack = <<>>

\* A deriving function that was called by another deriving function throws,
\* two frames deep.
C30_Witness ==
  \E n \in Nodes \ Atoms :
    /\ DoGet(Cur, n).err
    /\ Len(DoGet(Cur, n).ran) >= 2
    /\ \E i \in 1..Len(DoGet(Cur, n).caps) : DoGet(Cur, n).caps[i][1] = 2
----
\* The atoms that node n read, directly or through derivations, at the last
\* evaluations.
Sources(g, n) == Up(g, {n}, Cardinality(Nodes)) \cap Atoms

\* C31 (reactions are linked): in every state between calls, every active
\* reaction is in the child set of its parent, the parent is neither Green
\* nor Black, and every atom the parent read, directly or through
\* derivations, reaches the reaction by child links; every inactive reaction
\* is in no child set.
C31_ReactionsLinked ==
  \A r \in Reactors :
    IF active[r]
    THEN /\ SeqHas(children[Parent(r)], r)
         /\ color[Parent(r)] \notin {"Green", "Black"}
         /\ \A a \in Sources(Cur, Parent(r)) : r \in Below(Cur, a)
    ELSE \A n \in Nodes : ~SeqHas(children[n], r)

\* Reactions on a derivation and on a lens of a lens are active, and the
\* derivation reads both atoms, one of them through a lens.
C31_Witness ==
  /\ active["r1"] /\ active["r2"] /\ ~active["r3"]
  /\ Sources(Cur, "d") = {"a1", "a2"}
  /\ Sources(Cur, "l2") = {"a1"}
  /\ "r1" \in Below(Cur, "a2")
====
